---- MODULE Spec2Model ----
(***************************************************************************)
(* Network Monitor Pro: the monitoring engine of network_monitor_pro.py.   *)
(* The ping thread (ping_loop), the Tk main thread (check boxes, the       *)
(* "Toggle Airplane" button) and the tray thread (quit_app) are modelled   *)
(* as interleaved steps over the module's global state.                    *)
(***************************************************************************)
EXTENDS Integers, Sequences, FiniteSets, TLC

VARIABLES
    ping_history,           \* deque(maxlen=ROLLING_BUFFER) of latencies / None
    failure_streak,
    total_pings,
    successful_pings,
    disconnect_counter,
    airplane_mode,
    app_running,
    tray_icon,              \* FALSE while None, TRUE once the tray thread made it
    popup_enabled,
    sound_enabled,
    auto_airplane_enabled,
    avg_ping_var,           \* the number shown in "Avg Ping: .. ms" (None for "--")
    fail_count_var,
    uptime_var,
    icon_status,            \* the status the tray icon colour was last drawn from
    pc,                     \* position of the ping thread in ping_loop
    latency,                \* ping_loop's local of the current tick
    gui_pc,                 \* position of the Tk main thread in the button callback
    gui_arg,                \* the argument the button callback passed
    quit_requested,         \* root.quit() was called
    proc,                   \* "running" or "exited" (interpreter gone)
    adapters,               \* the OS network adapters: "up" or "down"
    log_file,               \* disconnect_log.csv: Absent or its rows
    tick,                   \* history variable: what the current tick did
    open_cycles,            \* history variable: remediation cycles begun, not ended
    write_failed,           \* history variable: a log write raised
    clicks,                 \* history variable: user actions so far
    pushed,                 \* history variable: every sample appended so far
    budget,                 \* probes this run of the model may still issue
    last_minute,            \* update_stats' local: the window it last took
    late_probes             \* history variable: probes issued after quit_app

vars == << ping_history, failure_streak, total_pings, successful_pings,
           disconnect_counter, airplane_mode, app_running, tray_icon,
           popup_enabled, sound_enabled, auto_airplane_enabled,
           avg_ping_var, fail_count_var, uptime_var, icon_status,
           pc, latency, gui_pc, gui_arg, quit_requested, proc, adapters,
           log_file, tick, open_cycles, write_failed, clicks,
           pushed, budget, last_minute, late_probes >>

-----------------------------------------------------------------------------
(* Configuration (lines 54-59) and the literals of the code.               *)

ROLLING_BUFFER == 300
DISCONNECT_THRESHOLD == 4
LOG_EVERY == 4              \* the 4 of "disconnect_counter % 4"
STATS_WINDOW == 60          \* the 60 of "[-60:]"
UNSTABLE_OVER == 4          \* the 4 of "count(None) > 4"

None == 0 - 1               \* Python's None; latencies are >= 0
Absent == << "absent" >>    \* the log file does not exist

(* Bounds of the model.                                                    *)
MaxTicks == 7               \* probes issued in one run of the model
MaxClicks == 1              \* check-box and button clicks of the user

ProbeLatencies == {20}

-----------------------------------------------------------------------------
(* A deque that evicts one append too late.                                *)
DequeAppend_late(d, x) ==
    IF Len(d) > ROLLING_BUFFER
        THEN Append(Tail(d), x)
        ELSE Append(d, x)

(* deque(maxlen=ROLLING_BUFFER).append(x): append on the right, and drop   *)
(* from the left when the deque is full.                                   *)
DequeAppend(d, x) ==
    IF Len(d) >= ROLLING_BUFFER
        THEN Append(Tail(d), x)
        ELSE Append(d, x)

(* The slice forgotten: the whole list.                                    *)
LastN_all(d, n) == d

(* The slice from the wrong end: list(d)[:n], the oldest n.                *)
LastN_first(d, n) == IF Len(d) <= n THEN d ELSE SubSeq(d, 1, n)

(* list(d)[-n:]                                                            *)
LastN(d, n) ==
    IF Len(d) <= n THEN d ELSE SubSeq(d, Len(d) - n + 1, Len(d))

(* [p for p in l if p is not None]                                         *)
Successes(l) == SelectSeq(l, LAMBDA p : p # None)

(* l.count(None)                                                           *)
CountNone(l) == Len(SelectSeq(l, LAMBDA p : p = None))

RECURSIVE Sum(_)
(* sum(l), the two halves added                                            *)
Sum(l) ==
    IF l = << >> THEN 0
    ELSE IF Len(l) = 1 THEN l[1]
    ELSE Sum(SubSeq(l, 1, Len(l) \div 2))
         + Sum(SubSeq(l, Len(l) \div 2 + 1, Len(l)))

(* all(p is None for p in l)                                               *)
AllNone(l) == \A i \in DOMAIN l : l[i] = None

(* int(sum(successes) / len(successes)) if successes else "--"             *)
AvgOf(successes) ==
    IF successes # << >> THEN Sum(successes) \div Len(successes) ELSE None

(* Python's float is the IEEE-754 double: a significand of MANTISSA bits,  *)
(* every operation rounded to the nearest double, ties to even.            *)
MANTISSA == 53

HUNDRED == 100

(* 2^n modulo t, by repeated squaring                                      *)
RECURSIVE PowMod(_, _)
PowMod(n, t) ==
    IF n = 0 THEN 1 % t
    ELSE LET h == PowMod(n \div 2, t)
         IN  (h * h * (IF n % 2 = 1 THEN 2 ELSE 1)) % t

(* the least e with 2^e * s >= t, for 0 < s < t: s / t lies in             *)
(* [2^-e, 2^(1-e))                                                         *)
RECURSIVE LeadingBit(_, _)
LeadingBit(s, t) == IF 2 * s >= t THEN 1 ELSE 1 + LeadingBit(2 * s, t)

(* x / 2^d rounded to the nearest integer, ties to the even one            *)
RoundHalfEven(x, d) ==
    LET f   == x \div (2 ^ d)
        rem == x % (2 ^ d)
    IN  IF 2 * rem > 2 ^ d \/ (2 * rem = 2 ^ d /\ f % 2 = 1)
            THEN f + 1 ELSE f

(* The double k / 100 for 0 < k < 100 is m * 2^-e with a significand m of  *)
(* MANTISSA bits: m is k * 2^e / 100 rounded to the nearest integer, ties  *)
(* to even.  With r the remainder of k * 2^e by 100, m is the quotient     *)
(* (rounded down) or the quotient plus one (rounded up), and               *)
(* rho = 100 * m - k * 2^e is -r or 100 - r.                               *)
FloatDiv(k) ==
    LET e    == LeadingBit(k, HUNDRED) + MANTISSA - 1
        r    == (k * PowMod(e, HUNDRED)) % HUNDRED
        r1   == (k * PowMod(e - 1, HUNDRED)) % HUNDRED
        odd  == 2 * r1 >= HUNDRED
        up   == 2 * r > HUNDRED \/ (2 * r = HUNDRED /\ odd)
    IN  [e |-> e, rho |-> IF up THEN HUNDRED - r ELSE 0 - r]

(* int((k / 100) * 100) for 0 <= k <= 100.  The exact product of the       *)
(* double k / 100 by 100 is (k * 2^e + rho) * 2^-e; it has MANTISSA + d    *)
(* bits, d = 7 when it reaches 2^(MANTISSA + 6) and d = 6 below, so the    *)
(* multiplication rounds it to a multiple of 2^(d - e).  k * 2^e is such a *)
(* multiple (an even one), so the rounding acts on rho alone, and int()    *)
(* drops what is left after the point: k, or k - 1 when rho was rounded    *)
(* to below zero.                                                          *)
FloatPercent(k) ==
    IF k = 0 THEN 0
    ELSE IF k = HUNDRED THEN 100
    ELSE LET q    == FloatDiv(k)
             top  == 2 ^ (MANTISSA + 6 - q.e)
             d    == IF k > top \/ (k = top /\ q.rho >= 0) THEN 7 ELSE 6
         IN  IF RoundHalfEven(q.rho, d) < 0 THEN k - 1 ELSE k

(* int((k / 100) * 100) for the whole percentages k                        *)
PercentOfHundredths == [k \in 0..100 |-> FloatPercent(k)]

(* int((successful_pings / total_pings) * 100) if total_pings else 0.      *)
(* When 100 * succ / total is a whole number k, succ / total and k / 100   *)
(* are the same real number and so the same double.  When it is not, it    *)
(* lies at least 1 / total from a whole number, much farther than the two  *)
(* roundings move it (less than 2^-45), and int() gives its floor.         *)
UptimeOf(succ, total) ==
    IF total # 0
        THEN IF (100 * succ) % total = 0
                THEN PercentOfHundredths[(100 * succ) \div total]
                ELSE (100 * succ) \div total
        ELSE 0

(* get_status() with ">=" for ">".                                         *)
get_status_ge(history) ==
    LET recent == LastN(history, STATS_WINDOW)
    IN  IF recent # << >> /\ AllNone(recent) THEN "Disconnected"
        ELSE IF CountNone(recent) >= UNSTABLE_OVER THEN "Unstable"
        ELSE "Online"

(* get_status(), lines 205-211                                             *)
get_status(history) ==
    LET recent == LastN(history, STATS_WINDOW)
    IN  IF recent # << >> /\ AllNone(recent) THEN "Disconnected"
        ELSE IF CountNone(recent) > UNSTABLE_OVER THEN "Unstable"
        ELSE "Online"

(* The threshold reached one failure early.                                *)
OutageCondition_early(streak) == streak >= DISCONNECT_THRESHOLD - 1

(* line 162                                                                *)
OutageCondition(streak) == streak >= DISCONNECT_THRESHOLD

(* The rate limit off by one: events 1, 5, 9, ... are logged.              *)
ShouldLog_first(counter) == counter % LOG_EVERY = 1

(* line 165                                                                *)
ShouldLog(counter) == counter % LOG_EVERY = 0

(* The file opened in mode "w": header and row replace what was there.     *)
LogAppend_rewrite(file) == << "Timestamp", "ts" >>

(* log_disconnect(), lines 127-133: open in append mode, write the header  *)
(* when the file did not exist, then one timestamp row.                    *)
LogAppend(file) ==
    IF file = Absent THEN << "Timestamp", "ts" >> ELSE Append(file, "ts")

-----------------------------------------------------------------------------
(* What one execution of "ping -n 1 -w 1000 8.8.8.8" can give ping_loop:   *)
(*   reply_time   exit code 0 and a line with "time=<ms>ms"                *)
(*   reply_notime exit code 0 and no "time=" in the output (e.g. "Reply    *)
(*                from 192.168.1.1: Destination host unreachable.")        *)
(*   error        check_output raises (non-zero exit code, no ping binary) *)
(* With the adapters disabled no echo reply comes back.                    *)
ProbeOutcomes(ad) ==
    { [kind |-> "error", ms |-> 0], [kind |-> "reply_notime", ms |-> 0] }
    \cup (IF ad = "up"
            THEN { [kind |-> "reply_time", ms |-> m] : m \in ProbeLatencies }
            ELSE {})

(* lines 143-157: the latency and the streak after one probe               *)
LatencyAfter(o) == IF o.kind = "reply_time" THEN o.ms ELSE None

(* A success that leaves the streak as it was.                             *)
StreakAfter_noreset(o, streak) ==
    CASE o.kind = "reply_time"   -> streak
      [] o.kind = "error"        -> streak + 1
      [] o.kind = "reply_notime" -> streak

StreakAfter(o, streak) ==
    CASE o.kind = "reply_time"   -> 0
      [] o.kind = "error"        -> streak + 1
      [] o.kind = "reply_notime" -> streak

(* Every reply with exit code 0 counted as a success.                      *)
SuccessesAfter_anyreply(o, succ) == IF o.kind # "error" THEN succ + 1 ELSE succ

SuccessesAfter(o, succ) == IF o.kind = "reply_time" THEN succ + 1 ELSE succ

NewTick(o) ==
    [ outcome  |-> o.kind,
      streak0  |-> failure_streak,
      counter0 |-> disconnect_counter,
      fired    |-> {} ]

Fire(what) == [tick EXCEPT !.fired = @ \cup what]

-----------------------------------------------------------------------------
Init ==
    /\ ping_history = << >>
    /\ failure_streak = 0
    /\ total_pings = 0
    /\ successful_pings = 0
    /\ disconnect_counter = 0
    /\ airplane_mode = FALSE
    /\ app_running = TRUE
    /\ tray_icon = FALSE
    /\ popup_enabled = TRUE
    /\ sound_enabled = TRUE
    /\ auto_airplane_enabled = TRUE
    /\ avg_ping_var = None
    /\ fail_count_var = 0
    /\ uptime_var = 0
    /\ icon_status = "Online"
    /\ pc = "loop"
    /\ latency = None
    /\ gui_pc = "idle"
    /\ gui_arg = FALSE
    /\ quit_requested = FALSE
    /\ proc = "running"
    /\ adapters = "up"
    /\ log_file \in { Absent, << "Timestamp", "old" >> }
    /\ tick = [ outcome |-> "none", streak0 |-> 0, counter0 |-> 0, fired |-> {} ]
    /\ open_cycles = 0
    /\ write_failed = FALSE
    /\ clicks = 0
    /\ pushed = << >>
    /\ budget = MaxTicks
    /\ last_minute = << >>
    /\ late_probes = 0

-----------------------------------------------------------------------------
(* The ping thread: ping_loop(), lines 138-183.                            *)

probeVars == << ping_history, failure_streak, total_pings, successful_pings,
                latency, pushed, budget, late_probes >>
engineVars == << probeVars, disconnect_counter >>
statVars == << avg_ping_var, fail_count_var, uptime_var, icon_status,
              last_minute >>
userVars == << popup_enabled, sound_enabled, auto_airplane_enabled,
               gui_pc, gui_arg, clicks, tray_icon, quit_requested,
               app_running, proc >>
logVars == << log_file, write_failed >>

(* "while True": the flag is not looked at.                                *)
LoopCheck_forever ==
    /\ proc = "running" /\ pc = "loop"
    /\ pc' = "probe"
    /\ UNCHANGED << engineVars, statVars, userVars, logVars, airplane_mode,
                    adapters, tick, open_cycles >>

(* line 141: while app_running (reached after the sleep of line 183)       *)
LoopCheck ==
    /\ proc = "running" /\ pc = "loop"
    /\ pc' = IF app_running THEN "probe" ELSE "done"
    /\ UNCHANGED << engineVars, statVars, userVars, logVars, airplane_mode,
                    adapters, tick, open_cycles >>

(* lines 142-159: count the probe, run ping, parse, record the sample      *)
Probe ==
    /\ proc = "running" /\ pc = "probe"
    /\ budget > 0
    /\ budget' = budget - 1
    /\ late_probes' = IF app_running THEN late_probes ELSE late_probes + 1
    /\ \E o \in ProbeOutcomes(adapters) :
        /\ total_pings' = total_pings + 1
        /\ latency' = LatencyAfter(o)
        /\ successful_pings' = SuccessesAfter(o, successful_pings)
        /\ failure_streak' = StreakAfter(o, failure_streak)
        /\ ping_history' = DequeAppend(ping_history, LatencyAfter(o))
        /\ pushed' = Append(pushed, LatencyAfter(o))
        /\ tick' = NewTick(o)
    /\ pc' = "detect"
    /\ UNCHANGED << disconnect_counter, statVars, userVars, logVars,
                    airplane_mode, adapters, open_cycles >>

(* line 162 false: no reaction on this tick                                *)
NoOutage ==
    /\ proc = "running" /\ pc = "detect"
    /\ ~OutageCondition(failure_streak)
    /\ pc' = "stats"
    /\ UNCHANGED << engineVars, statVars, userVars, logVars, airplane_mode,
                    adapters, tick, open_cycles >>

(* lines 162-166: count the outage event and log every LOG_EVERY-th one    *)
CountOutage ==
    /\ proc = "running" /\ pc = "detect"
    /\ OutageCondition(failure_streak)
    /\ disconnect_counter' = disconnect_counter + 1
    /\ IF ShouldLog(disconnect_counter + 1)
          THEN /\ log_file' = LogAppend(log_file)
               /\ tick' = Fire({"count", "log"})
          ELSE /\ UNCHANGED log_file
               /\ tick' = Fire({"count"})
    /\ pc' = "alert"
    /\ UNCHANGED << probeVars, statVars, userVars, write_failed, airplane_mode,
                    adapters, open_cycles >>

(* lines 163-166 when open() or the write raises: nothing catches it, the  *)
(* exception ends the ping thread                                          *)
CountOutageLogFails ==
    /\ proc = "running" /\ pc = "detect"
    /\ OutageCondition(failure_streak)
    /\ ShouldLog(disconnect_counter + 1)
    /\ disconnect_counter' = disconnect_counter + 1
    /\ write_failed' = TRUE
    /\ tick' = Fire({"count"})
    /\ pc' = "crashed"
    /\ UNCHANGED << probeVars, statVars, userVars, log_file,
                    airplane_mode, adapters, open_cycles >>

(* lines 168-175: the popup is queued with root.after, the beep is played  *)
Alert ==
    /\ proc = "running" /\ pc = "alert"
    /\ tick' = Fire((IF popup_enabled THEN {"popup"} ELSE {})
                    \cup (IF sound_enabled THEN {"beep"} ELSE {}))
    /\ pc' = "remediate"
    /\ UNCHANGED << engineVars, statVars, userVars, logVars, airplane_mode,
                    adapters, open_cycles >>

(* line 175 when winsound.Beep raises RuntimeError                         *)
AlertBeepFails ==
    /\ proc = "running" /\ pc = "alert"
    /\ sound_enabled
    /\ tick' = Fire(IF popup_enabled THEN {"popup"} ELSE {})
    /\ pc' = "crashed"
    /\ UNCHANGED << engineVars, statVars, userVars, logVars, airplane_mode,
                    adapters, open_cycles >>

(* line 177 false                                                          *)
SkipRemediation ==
    /\ proc = "running" /\ pc = "remediate"
    /\ ~auto_airplane_enabled
    /\ pc' = "stats"
    /\ UNCHANGED << engineVars, statVars, userVars, logVars, airplane_mode,
                    adapters, tick, open_cycles >>

(* lines 177-178, 111-114: set_airplane_mode(True) runs Disable-NetAdapter *)
RemediateDisable ==
    /\ proc = "running" /\ pc = "remediate"
    /\ auto_airplane_enabled
    /\ adapters' = "down"
    /\ open_cycles' = open_cycles + 1
    /\ tick' = Fire({"disable"})
    /\ pc' = "disable_flag"
    /\ UNCHANGED << engineVars, statVars, userVars, logVars, airplane_mode >>

(* line 112 when subprocess.run raises (no powershell on the PATH)         *)
RemediateDisableFails ==
    /\ proc = "running" /\ pc = "remediate"
    /\ auto_airplane_enabled
    /\ pc' = "crashed"
    /\ UNCHANGED << engineVars, statVars, userVars, logVars, airplane_mode,
                    adapters, tick, open_cycles >>

(* A remediation that does not block: after the disable the loop goes on   *)
(* to its next tick and leaves the enable for later.                       *)
RemediateDisableFlag_nowait ==
    /\ proc = "running" /\ pc = "disable_flag"
    /\ airplane_mode' = TRUE
    /\ pc' = "stats"
    /\ UNCHANGED << engineVars, statVars, userVars, logVars, adapters, tick,
                    open_cycles >>

(* line 115: airplane_mode = True; then the thread sleeps 3 s (line 179)   *)
RemediateDisableFlag ==
    /\ proc = "running" /\ pc = "disable_flag"
    /\ airplane_mode' = TRUE
    /\ pc' = "cooldown"
    /\ UNCHANGED << engineVars, statVars, userVars, logVars, adapters, tick,
                    open_cycles >>

(* lines 180, 117-119: after the sleep, set_airplane_mode(False) runs      *)
(* Enable-NetAdapter                                                       *)
RemediateEnable ==
    /\ proc = "running" /\ pc = "cooldown"
    /\ adapters' = "up"
    /\ open_cycles' = open_cycles - 1
    /\ tick' = Fire({"enable"})
    /\ pc' = "enable_flag"
    /\ UNCHANGED << engineVars, statVars, userVars, logVars, airplane_mode >>

(* line 117 when subprocess.run raises                                     *)
RemediateEnableFails ==
    /\ proc = "running" /\ pc = "cooldown"
    /\ pc' = "crashed"
    /\ UNCHANGED << engineVars, statVars, userVars, logVars, airplane_mode,
                    adapters, tick, open_cycles >>

(* line 120: airplane_mode = False                                         *)
RemediateEnableFlag ==
    /\ proc = "running" /\ pc = "enable_flag"
    /\ airplane_mode' = FALSE
    /\ pc' = "stats"
    /\ UNCHANGED << engineVars, statVars, userVars, logVars, adapters, tick,
                    open_cycles >>

(* line 182: update_stats(), lines 189-194: the window is taken and the    *)
(* average is set into its Tk variable                                     *)
update_stats ==
    /\ proc = "running" /\ pc = "stats"
    /\ last_minute' = LastN(ping_history, STATS_WINDOW)
    /\ avg_ping_var' = AvgOf(Successes(last_minute'))
    /\ pc' = "stats_failures"
    /\ UNCHANGED << engineVars, userVars, logVars, airplane_mode, adapters,
                    tick, open_cycles, fail_count_var, uptime_var,
                    icon_status >>

(* lines 191, 195: the failure count is set                                *)
update_stats_failures ==
    /\ proc = "running" /\ pc = "stats_failures"
    /\ fail_count_var' = CountNone(last_minute)
    /\ pc' = "stats_uptime"
    /\ UNCHANGED << engineVars, userVars, logVars, airplane_mode, adapters,
                    tick, open_cycles, avg_ping_var, uptime_var, icon_status,
                    last_minute >>

(* lines 197-198: the uptime is set                                        *)
update_stats_uptime ==
    /\ proc = "running" /\ pc = "stats_uptime"
    /\ uptime_var' = UptimeOf(successful_pings, total_pings)
    /\ pc' = "stats_icon"
    /\ UNCHANGED << engineVars, userVars, logVars, airplane_mode, adapters,
                    tick, open_cycles, avg_ping_var, fail_count_var,
                    icon_status, last_minute >>

(* lines 200, 222-226: update_tray_icon() draws the icon from get_status() *)
(* when the tray icon exists; then the sleep of line 183                   *)
update_tray_icon ==
    /\ proc = "running" /\ pc = "stats_icon"
    /\ icon_status' = IF tray_icon THEN get_status(ping_history) ELSE icon_status
    /\ pc' = "loop"
    /\ UNCHANGED << engineVars, userVars, logVars, airplane_mode, adapters,
                    tick, open_cycles, avg_ping_var, fail_count_var,
                    uptime_var, last_minute >>

-----------------------------------------------------------------------------
(* The Tk main thread and the tray thread.                                 *)

loopVars == << engineVars, statVars, logVars, pc, tick, open_cycles >>

(* lines 263, 300-304: the user flips one of the three check boxes         *)
ClickPopup ==
    /\ proc = "running" /\ gui_pc = "idle" /\ clicks < MaxClicks
    /\ popup_enabled' = ~popup_enabled
    /\ clicks' = clicks + 1
    /\ UNCHANGED << loopVars, sound_enabled, auto_airplane_enabled, gui_pc,
                    gui_arg, tray_icon, quit_requested, app_running, proc,
                    airplane_mode, adapters >>

ClickSound ==
    /\ proc = "running" /\ gui_pc = "idle" /\ clicks < MaxClicks
    /\ sound_enabled' = ~sound_enabled
    /\ clicks' = clicks + 1
    /\ UNCHANGED << loopVars, popup_enabled, auto_airplane_enabled, gui_pc,
                    gui_arg, tray_icon, quit_requested, app_running, proc,
                    airplane_mode, adapters >>

ClickAutoAirplane ==
    /\ proc = "running" /\ gui_pc = "idle" /\ clicks < MaxClicks
    /\ auto_airplane_enabled' = ~auto_airplane_enabled
    /\ clicks' = clicks + 1
    /\ UNCHANGED << loopVars, popup_enabled, sound_enabled, gui_pc, gui_arg,
                    tray_icon, quit_requested, app_running, proc,
                    airplane_mode, adapters >>

(* lines 297-298: the button's lambda evaluates "not airplane_mode" and    *)
(* calls set_airplane_mode with it                                         *)
ClickToggleAirplane ==
    /\ proc = "running" /\ gui_pc = "idle" /\ clicks < MaxClicks
    /\ gui_arg' = ~airplane_mode
    /\ gui_pc' = "command"
    /\ clicks' = clicks + 1
    /\ UNCHANGED << loopVars, popup_enabled, sound_enabled,
                    auto_airplane_enabled, tray_icon, quit_requested,
                    app_running, proc, airplane_mode, adapters >>

(* lines 111-119 on the main thread: run_powershell                        *)
GuiToggleCommand ==
    /\ proc = "running" /\ gui_pc = "command"
    /\ adapters' = IF gui_arg THEN "down" ELSE "up"
    /\ gui_pc' = "flag"
    /\ UNCHANGED << loopVars, popup_enabled, sound_enabled,
                    auto_airplane_enabled, gui_arg, clicks, tray_icon,
                    quit_requested, app_running, proc, airplane_mode >>

(* lines 115, 120 on the main thread: the flag, and back to the event loop *)
GuiToggleFlag ==
    /\ proc = "running" /\ gui_pc = "flag"
    /\ airplane_mode' = gui_arg
    /\ gui_pc' = "idle"
    /\ UNCHANGED << loopVars, popup_enabled, sound_enabled,
                    auto_airplane_enabled, gui_arg, clicks, tray_icon,
                    quit_requested, app_running, proc, adapters >>

(* lines 243-252: the tray thread creates the icon                         *)
TrayStart ==
    /\ proc = "running" /\ ~tray_icon
    /\ tray_icon' = TRUE
    /\ UNCHANGED << loopVars, popup_enabled, sound_enabled,
                    auto_airplane_enabled, gui_pc, gui_arg, clicks,
                    quit_requested, app_running, proc, airplane_mode, adapters >>

(* lines 237-241: quit_app from the tray menu                              *)
quit_app ==
    /\ proc = "running" /\ tray_icon /\ ~quit_requested
    /\ app_running' = FALSE
    /\ quit_requested' = TRUE
    /\ UNCHANGED << loopVars, popup_enabled, sound_enabled,
                    auto_airplane_enabled, gui_pc, gui_arg, clicks, tray_icon,
                    proc, airplane_mode, adapters >>

(* lines 241, 323: root.quit() makes root.mainloop() return once the main  *)
(* thread is back in the event loop; the script ends and the interpreter   *)
(* exits without waiting for the daemon threads (line 315)                 *)
MainloopExit ==
    /\ proc = "running" /\ quit_requested /\ gui_pc = "idle"
    /\ proc' = "exited"
    /\ UNCHANGED << loopVars, popup_enabled, sound_enabled,
                    auto_airplane_enabled, gui_pc, gui_arg, clicks, tray_icon,
                    quit_requested, app_running, airplane_mode, adapters >>

-----------------------------------------------------------------------------
Next ==
    \/ LoopCheck
    \/ Probe
    \/ NoOutage
    \/ CountOutage
    \/ CountOutageLogFails
    \/ Alert
    \/ AlertBeepFails
    \/ SkipRemediation
    \/ RemediateDisable
    \/ RemediateDisableFails
    \/ RemediateDisableFlag
    \/ RemediateEnable
    \/ RemediateEnableFails
    \/ RemediateEnableFlag
    \/ update_stats
    \/ update_stats_failures
    \/ update_stats_uptime
    \/ update_tray_icon
    \/ ClickPopup
    \/ ClickSound
    \/ ClickAutoAirplane
    \/ ClickToggleAirplane
    \/ GuiToggleCommand
    \/ GuiToggleFlag
    \/ TrayStart
    \/ quit_app
    \/ MainloopExit

Spec == Init /\ [][Next]_vars

(* The ping thread (line 315) is scheduled again and again.                *)
PingThread ==
    \/ LoopCheck
    \/ Probe
    \/ NoOutage
    \/ CountOutage
    \/ CountOutageLogFails
    \/ Alert
    \/ AlertBeepFails
    \/ SkipRemediation
    \/ RemediateDisable
    \/ RemediateDisableFails
    \/ RemediateDisableFlag
    \/ RemediateEnable
    \/ RemediateEnableFails
    \/ RemediateEnableFlag
    \/ update_stats
    \/ update_stats_failures
    \/ update_stats_uptime
    \/ update_tray_icon

(* The program from the sleep after three probes that raised, with the     *)
(* tray thread not yet started and "Auto Airplane" as the user left it;    *)
(* from here the user does nothing but quit.  With at most MaxLateTicks    *)
(* further probes disconnect_counter stays below LOG_EVERY                 *)
(* (MaxLateTicks < LOG_EVERY), so no log write is attempted.               *)
MaxLateTicks == 2

InitQuit ==
    /\ ping_history = << None, None, None >>
    /\ pushed = ping_history
    /\ total_pings = 3
    /\ successful_pings = 0
    /\ failure_streak = 3
    /\ disconnect_counter = 0
    /\ latency = None
    /\ tick = [ outcome |-> "error", streak0 |-> 2, counter0 |-> 0,
                fired |-> {} ]
    /\ last_minute = ping_history
    /\ avg_ping_var = None
    /\ fail_count_var = 3
    /\ uptime_var = 0
    /\ icon_status = "Online"
    /\ tray_icon = FALSE
    /\ pc = "loop"
    /\ budget = MaxLateTicks
    /\ late_probes = 0
    /\ airplane_mode = FALSE
    /\ app_running = TRUE
    /\ popup_enabled = TRUE
    /\ sound_enabled = TRUE
    /\ auto_airplane_enabled \in BOOLEAN
    /\ gui_pc = "idle"
    /\ gui_arg = FALSE
    /\ quit_requested = FALSE
    /\ proc = "running"
    /\ adapters = "up"
    /\ log_file = Absent
    /\ open_cycles = 0
    /\ write_failed = FALSE
    /\ clicks = 0

NextQuit ==
    \/ LoopCheck
    \/ Probe
    \/ NoOutage
    \/ CountOutage
    \/ Alert
    \/ AlertBeepFails
    \/ SkipRemediation
    \/ RemediateDisable
    \/ RemediateDisableFails
    \/ RemediateDisableFlag
    \/ RemediateEnable
    \/ RemediateEnableFails
    \/ RemediateEnableFlag
    \/ update_stats
    \/ update_stats_failures
    \/ update_stats_uptime
    \/ update_tray_icon
    \/ TrayStart
    \/ quit_app
    \/ MainloopExit

SpecQuit == InitQuit /\ [][NextQuit]_vars /\ WF_vars(PingThread)

-----------------------------------------------------------------------------
(* The ping thread continued from a later moment of a run: the history     *)
(* already holds many samples, the tray icon exists, the user does         *)
(* nothing.  The moment is the sleep of line 183 after a tick whose failed *)
(* probes were all replies without "time=", so failure_streak is 0; with   *)
(* at most MaxPushes further probes the streak stays below                 *)
(* DISCONNECT_THRESHOLD (MaxPushes < DISCONNECT_THRESHOLD) and the         *)
(* steps of lines 163-180 are not enabled.                                 *)

MaxPushes == 2
WindowSamples == {None, 15, 20}
RunLengths == {0, 1, 4, 5, 55, 60, 239, 240}

Rep(x, n) == [i \in 1..n |-> x]

Histories ==
    { h \in { Rep(a.x, k.x) \o Rep(a.y, k.y) \o Rep(a.z, k.z) :
                a \in [{"x", "y", "z"} -> WindowSamples],
                k \in [{"x", "y", "z"} -> RunLengths] } :
        Len(h) <= ROLLING_BUFFER }

(* the state of the program after the tick that pushed the last sample of  *)
(* ping_history                                                            *)
AfterTicks ==
    /\ pushed = ping_history
    /\ total_pings = Len(ping_history)
    /\ successful_pings = Len(Successes(ping_history))
    /\ failure_streak = 0
    /\ disconnect_counter = 0
    /\ latency = IF ping_history = << >> THEN None
                 ELSE ping_history[Len(ping_history)]
    /\ tick = [ outcome  |-> IF ping_history = << >> THEN "none"
                             ELSE IF ping_history[Len(ping_history)] = None
                                THEN "reply_notime" ELSE "reply_time",
                streak0 |-> 0, counter0 |-> 0, fired |-> {} ]
    /\ last_minute = LastN(ping_history, STATS_WINDOW)
    /\ avg_ping_var = AvgOf(Successes(last_minute))
    /\ fail_count_var = CountNone(last_minute)
    /\ late_probes = 0
    /\ uptime_var = UptimeOf(successful_pings, total_pings)
    /\ icon_status = get_status(ping_history)
    /\ tray_icon = TRUE
    /\ pc = "loop"
    /\ budget = MaxPushes
    /\ airplane_mode = FALSE
    /\ app_running = TRUE
    /\ popup_enabled = TRUE
    /\ sound_enabled = TRUE
    /\ auto_airplane_enabled = TRUE
    /\ gui_pc = "idle"
    /\ gui_arg = FALSE
    /\ quit_requested = FALSE
    /\ proc = "running"
    /\ adapters = "up"
    /\ log_file = Absent
    /\ open_cycles = 0
    /\ write_failed = FALSE
    /\ clicks = 0

InitWindow == ping_history \in Histories /\ AfterTicks

NextWindow ==
    \/ LoopCheck
    \/ Probe
    \/ NoOutage
    \/ update_stats
    \/ update_stats_failures
    \/ update_stats_uptime
    \/ update_tray_icon

SpecWindow == InitWindow /\ [][NextWindow]_vars

(* The same from every pair of counters up to MaxTotal probes.             *)
MaxTotal == 49

UptimeHistories ==
    UNION { { Rep(20, k) \o Rep(None, n - k) : k \in 0..n } :
                n \in 0..MaxTotal }

InitUptime == ping_history \in UptimeHistories /\ AfterTicks

SpecUptime == InitUptime /\ [][NextWindow]_vars

-----------------------------------------------------------------------------
(* Properties of the running program (specification Spec).                 *)

Min(a, b) == IF a <= b THEN a ELSE b

(* the timestamp rows this run appended to the log file                    *)
RowsWritten ==
    IF log_file = Absent THEN 0
    ELSE Cardinality({ i \in DOMAIN log_file : log_file[i] = "ts" })

(* the length of the run of failure samples at the end of s                *)
RECURSIVE TrailingFailures(_)
TrailingFailures(s) ==
    IF s = << >> \/ s[Len(s)] # None THEN 0
    ELSE 1 + TrailingFailures(SubSeq(s, 1, Len(s) - 1))

(* C1: the outage event is counted (and the reaction started) only on the  *)
(* tick in which failure_streak goes from DISCONNECT_THRESHOLD - 1 to      *)
(* DISCONNECT_THRESHOLD, never on a later tick of the same outage.         *)
C1_FiresOnlyOnCrossing ==
    "count" \in tick.fired =>
        /\ tick.streak0 = DISCONNECT_THRESHOLD - 1
        /\ failure_streak = DISCONNECT_THRESHOLD

C3_NoReentry ==
    /\ open_cycles <= 1
    /\ open_cycles = 1 => pc \in {"disable_flag", "cooldown", "crashed"}

C3_SecondEventInCycle ==
    /\ open_cycles = 1
    /\ pc = "cooldown"
    /\ disconnect_counter >= 2

(* C4: no failure of the log write, the alert or the network toggle ends   *)
(* the monitoring loop: the ping thread is stopped only after app_running  *)
(* was set to false.                                                       *)
C4_LoopSurvivesSideEffects ==
    pc \in {"crashed", "done"} => ~app_running

(* C5: every probe that records a sample without latency adds exactly 1 to *)
(* failure_streak.                                                         *)
C5_EveryFailureCounts ==
    (tick.outcome # "none" /\ latency = None) =>
        failure_streak = tick.streak0 + 1

(* C6: a successful probe sets failure_streak to 0, leaves                 *)
(* disconnect_counter as it was and triggers no log, alert or remediation  *)
(* on its tick; failure_streak never counts a failure older than the last  *)
(* success, so a later outage needs DISCONNECT_THRESHOLD new failures.     *)
C6_SilentRecovery ==
    /\ tick.outcome = "reply_time" =>
          /\ failure_streak = 0
          /\ disconnect_counter = tick.counter0
          /\ tick.fired = {}
          /\ pc \in {"detect", "stats", "stats_failures", "stats_uptime",
                    "stats_icon", "loop", "probe", "done"}
    /\ failure_streak <= TrailingFailures(pushed)

C6_RecoveredFromOutage ==
    /\ tick.outcome = "reply_time"
    /\ tick.streak0 >= DISCONNECT_THRESHOLD
    /\ pc = "loop"

(* C7: a remediation cycle is never left at its disable: a cycle is open   *)
(* only while the ping thread is on its way to the enable, with no probe   *)
(* in between, also when the application is quit during the cool-down.     *)
(* (A ping thread ended by an exception is the matter of C4.)              *)
C7_CycleAlwaysCompleted ==
    (open_cycles > 0 /\ pc # "crashed") =>
        /\ proc = "running"
        /\ pc \in {"disable_flag", "cooldown"}

-----------------------------------------------------------------------------
(* Properties of the history buffer and of the windowed statistics         *)
(* (specification SpecWindow).                                             *)

(* the most recent 60 samples of h, oldest first                           *)
Window60(h) ==
    LET n == Min(Len(h), 60)
    IN  [i \in 1..n |-> h[Len(h) - n + i]]

FailuresIn(w) == { i \in DOMAIN w : w[i] = None }

RECURSIVE SumAt(_, _)
SumAt(w, I) ==
    IF I = {} THEN 0
    ELSE LET i == CHOOSE j \in I : TRUE
         IN  w[i] + SumAt(w, I \ {i})

(* C8: the buffer never holds more than its capacity of 300 samples, and   *)
(* it is always the most recent min(pushes, 300) samples pushed, in the    *)
(* order they were pushed (the oldest is the one evicted).                 *)
C8_BufferFifo ==
    /\ Len(ping_history) <= 300
    /\ Len(ping_history) = Min(Len(pushed), 300)
    /\ \A i \in 1..Len(ping_history) :
          ping_history[i] = pushed[Len(pushed) - Len(ping_history) + i]

C8_Evicted ==
    /\ Len(pushed) > 300
    /\ pushed[1] # ping_history[1]

(* C9: after update_stats the status is Online for an empty window,        *)
(* Disconnected for a non-empty window of failures only, otherwise         *)
(* Unstable for more than 4 failures in the window, otherwise Online.      *)
C9_StatusOfWindow ==
    (pc = "loop" /\ tray_icon) =>
        LET w == Window60(ping_history)
        IN  icon_status =
                IF w = << >> THEN "Online"
                ELSE IF FailuresIn(w) = DOMAIN w THEN "Disconnected"
                ELSE IF Cardinality(FailuresIn(w)) > 4 THEN "Unstable"
                ELSE "Online"

C9_UnstableShortWindow ==
    /\ pc = "loop" /\ tray_icon
    /\ budget < MaxPushes
    /\ Len(ping_history) < 60
    /\ icon_status = "Unstable"

(* C10: after update_stats the failure count is the number of failures     *)
(* among the last 60 samples, and the average is none when these hold no   *)
(* success and otherwise the mean of their latencies truncated to an       *)
(* integer; older samples do not count.                                    *)
C10_WindowStats ==
    pc = "loop" =>
        LET w  == Window60(ping_history)
            ok == DOMAIN w \ FailuresIn(w)
            n  == Cardinality(ok)
        IN  /\ fail_count_var = Cardinality(FailuresIn(w))
            /\ n = 0 => avg_ping_var = None
            /\ n > 0 => /\ avg_ping_var # None
                        /\ avg_ping_var * n <= SumAt(w, ok)
                        /\ SumAt(w, ok) < (avg_ping_var + 1) * n

C10_TruncatedMeanOfWindow ==
    /\ pc = "loop"
    /\ budget < MaxPushes
    /\ Len(ping_history) > 60
    /\ ping_history[1] \notin {None, 15}
    /\ fail_count_var > 0
    /\ avg_ping_var # None
    /\ LET w  == Window60(ping_history)
           ok == DOMAIN w \ FailuresIn(w)
       IN  avg_ping_var * Cardinality(ok) < SumAt(w, ok)

(* C11: the window update_stats takes is the most recent 60 samples of the *)
(* buffer in the order they were pushed, all k of them when the buffer     *)
(* holds k < 60; the buffer is what it was before the window was taken.    *)
C11_WindowOfBuffer ==
    pc \in {"stats_failures", "stats_uptime", "stats_icon", "loop"} =>
        /\ last_minute = Window60(ping_history)
        /\ Len(last_minute) = Min(Len(ping_history), 60)
        /\ Len(ping_history) = Min(Len(pushed), 300)
        /\ \A i \in 1..Len(last_minute) :
              last_minute[i] = pushed[Len(pushed) - Len(last_minute) + i]

C11_ShortWindowTaken ==
    /\ pc = "stats_failures"
    /\ budget < MaxPushes
    /\ Len(ping_history) \in 2..59
    /\ Len(last_minute) = Len(ping_history)
    /\ last_minute[1] # last_minute[Len(last_minute)]

-----------------------------------------------------------------------------
(* Properties of the uptime figure (specification SpecUptime).             *)

(* C12: after update_stats the uptime is floor(successful_pings * 100 /    *)
(* total_pings), 0 when no probe was made, and lies in 0..100.             *)
C12_UptimeIsFloor ==
    pc = "loop" =>
        /\ uptime_var \in 0..100
        /\ uptime_var = IF total_pings = 0 THEN 0
                        ELSE (successful_pings * 100) \div total_pings

-----------------------------------------------------------------------------
(* Further properties of the running program (specifications Spec and      *)
(* FairSpec).                                                              *)

HeaderRows(file) == { i \in DOMAIN file : file[i] = "Timestamp" }

(* C13: a log write only appends: it leaves the rows of an existing file   *)
(* as they are and adds one timestamp row after them; the header row is    *)
(* written only into a file that did not exist, before the first row; the  *)
(* file changes only on a tick that logs.                                  *)
C13_AppendOnly ==
    [][ log_file' # log_file =>
          /\ log_file' # Absent
          /\ "log" \in tick'.fired
          /\ log_file'[Len(log_file')] = "ts"
          /\ IF log_file = Absent
                THEN /\ Len(log_file') = 2
                     /\ HeaderRows(log_file') = {1}
                ELSE /\ Len(log_file') = Len(log_file) + 1
                     /\ SubSeq(log_file', 1, Len(log_file)) = log_file
                     /\ HeaderRows(log_file') = HeaderRows(log_file) ]_vars

C13_AppendedToExisting ==
    log_file = << "Timestamp", "old", "ts" >>

(* C14: after quit_app set app_running to false the ping thread issues at  *)
(* most one further probe, and (scheduled fairly, and allowed that probe)  *)
(* it ends.                                                                *)
C14_StopsAfterQuit ==
    /\ [](late_probes <= 1)
    /\ (~app_running /\ budget > 0)
          ~> (pc \in {"done", "crashed"} \/ proc = "exited")

C14_StoppedAfterLateProbe ==
    /\ late_probes = 1
    /\ pc = "done"
    /\ proc = "running"

(* C15: at every instant the four displayed values (average, failures,     *)
(* uptime, status) are those of one and the same tick: of the samples and  *)
(* counters as they were after some k-th probe (k = 0: the start values).  *)
C15_ConsistentSnapshot ==
    \E k \in 0..Len(pushed) :
        LET h == SubSeq(pushed, 1, k)
            w == LastN(h, STATS_WINDOW)
        IN  /\ avg_ping_var = AvgOf(Successes(w))
            /\ fail_count_var = CountNone(w)
            /\ uptime_var = UptimeOf(Len(Successes(h)), k)
            /\ tray_icon => icon_status = get_status(h)

(* C16: airplane_mode is written, and the adapters are disabled or         *)
(* enabled, only by steps of the ping thread.                              *)
C16_OnlyEngineToggles ==
    [][ (airplane_mode' # airplane_mode \/ adapters' # adapters) =>
          (pc' # pc /\ gui_pc' = gui_pc) ]_vars

(* C17: when a tick logs, alerts or toggles the network, the displayed     *)
(* statistics already include the sample of that tick.                     *)
C17_SnapshotBeforeReaction ==
    tick.fired # {} =>
        LET w == Window60(ping_history)
        IN  /\ fail_count_var = Cardinality(FailuresIn(w))
            /\ avg_ping_var = AvgOf(Successes(w))
            /\ uptime_var = UptimeOf(successful_pings, total_pings)

(* C18: successful_pings <= total_pings; total_pings is the number of      *)
(* samples pushed and successful_pings the number of pushed samples with a *)
(* latency; no step decreases a counter, and a step that counts a probe    *)
(* pushes exactly one sample.                                              *)
C18_CountersFollowHistory ==
    /\ [](/\ successful_pings <= total_pings
          /\ total_pings = Len(pushed)
          /\ successful_pings
                = Cardinality({ i \in DOMAIN pushed : pushed[i] # None }))
    /\ [][ /\ total_pings' \in {total_pings, total_pings + 1}
           /\ successful_pings' \in {successful_pings, successful_pings + 1}
           /\ Len(pushed') - Len(pushed) = total_pings' - total_pings ]_vars

C18_CountedAReplyWithoutTime ==
    /\ pc = "loop"
    /\ tick.outcome = "reply_notime"
    /\ total_pings = 3
    /\ successful_pings = 1

(* C19: on a tick that counts an outage event the most recent              *)
(* DISCONNECT_THRESHOLD samples of the history are failures, and so are    *)
(* the samples of the last failure_streak ticks.                           *)
C19_NoFalseOutage ==
    "count" \in tick.fired =>
        /\ Len(ping_history) >= 4
        /\ \A i \in 0..3 : ping_history[Len(ping_history) - i] = None
        /\ failure_streak <= Len(pushed)
        /\ \A i \in 1..failure_streak : pushed[Len(pushed) + 1 - i] = None

C19_OutageAfterUncountedFailure ==
    /\ "count" \in tick.fired
    /\ TrailingFailures(pushed) > failure_streak
    /\ Len(pushed) > TrailingFailures(pushed)

(* C20: while neither thread is inside set_airplane_mode, airplane_mode is *)
(* true exactly when the last toggle command executed was the disable.     *)
C20_FlagFollowsAdapters ==
    (gui_pc = "idle" /\ pc \notin {"disable_flag", "enable_flag"}) =>
        (airplane_mode <=> adapters = "down")

====
